---- MODULE Spec2Model ----
(***************************************************************************)
(* Signed session tokens and credential checking of the minimal sauropod   *)
(* server (pysauropod/server/session.py, pysauropod/server/credentials.py).*)
(*                                                                         *)
(* Byte strings.  A Python 2 str is a sequence of chunks.  A chunk is      *)
(* either a literal byte <<n>> (n the byte value) or a slice               *)
(* <<blob, lo, hi>>: bytes lo..hi of an opaque value `blob`.  Blobs are    *)
(* the outputs of the keyed hash, which is treated as an ideal function:   *)
(* <<digestmod, key, msg>> is the digest of msg under key, and two digests *)
(* agree exactly when digestmod, key and msg agree.  The base64 text of a  *)
(* string that holds digest bytes is the blob <<"b64", s, <<>> >>.         *)
(***************************************************************************)
EXTENDS Integers, Sequences, FiniteSets, TLC

VARIABLES now, mgr, cur, last, rejected, seen, calls, verifyLog, credLast, expand, issued

vars == <<now, mgr, cur, last, rejected, seen, calls, verifyLog, credLast, expand, issued>>

-----------------------------------------------------------------------------
(* Python values *)

NoArg == <<>>
Arg(x) == <<x>>

PyNone == <<"None">>

Raise(exc) == <<"raise", exc>>
IsRaise(r) == Len(r) = 2 /\ r[1] = "raise"

PyStr(s) == <<"str", s>>
PyUnicode(s) == <<"unicode", s>>
PyTuple(a, b) == <<"tuple", a, b>>
IsTuple(r) == Len(r) = 3 /\ r[1] = "tuple"

-----------------------------------------------------------------------------
(* Byte strings *)

Str(codes) == [i \in 1..Len(codes) |-> <<codes[i]>>]

IsLit(c) == Len(c) = 1
Width(c) == IF IsLit(c) THEN 1 ELSE c[3] - c[2] + 1
AllLit(s) == \A i \in 1..Len(s) : IsLit(s[i])
Codes(s) == [i \in 1..Len(s) |-> s[i][1]]

(* the number of bytes in the chunks lo..hi of s; the range is halved so
   that the evaluation of a long string nests no deeper than log2 of its
   length *)
RECURSIVE WidthOf(_, _, _)
WidthOf(s, lo, hi) ==
    IF lo > hi THEN 0
    ELSE IF lo = hi THEN Width(s[lo])
    ELSE WidthOf(s, lo, (lo + hi) \div 2) + WidthOf(s, (lo + hi) \div 2 + 1, hi)

(* len(s) *)
CLen(s) == WidthOf(s, 1, Len(s))

(* s[:n] for n >= 0: the chunks that fit whole, then the first bytes of the
   slice that does not *)
Take(s, n) ==
    LET k == Cardinality({j \in 1..Len(s) : WidthOf(s, 1, j) <= n})
        rest == n - WidthOf(s, 1, k)
    IN  IF k = Len(s) \/ rest <= 0 THEN SubSeq(s, 1, k)
        ELSE Append(SubSeq(s, 1, k), <<s[k + 1][1], s[k + 1][2], s[k + 1][2] + rest - 1>>)

(* s with the byte at position p (1-based) replaced by the literal byte c *)
RECURSIVE ReplaceAt(_, _, _)
ReplaceAt(s, p, c) ==
    IF s = <<>> THEN <<>>
    ELSE LET h == Head(s)
             w == Width(h)
         IN  IF p > w THEN <<h>> \o ReplaceAt(Tail(s), p - w, c)
             ELSE IF IsLit(h) THEN << <<c>> >> \o Tail(s)
             ELSE (IF p > 1 THEN << <<h[1], h[2], h[2] + p - 2>> >> ELSE <<>>)
                  \o << <<c>> >>
                  \o (IF p < w THEN << <<h[1], h[2] + p, h[3]>> >> ELSE <<>>)
                  \o Tail(s)

(* the byte at position p, when it is a literal; -1 for a digest byte *)
RECURSIVE ByteAt(_, _)
ByteAt(s, p) ==
    LET h == Head(s)
        w == Width(h)
    IN  IF p > w THEN ByteAt(Tail(s), p - w)
        ELSE IF IsLit(h) THEN h[1] ELSE -1

ColonAt(s) == {i \in 1..Len(s) : s[i] = <<58>>}

Max(S) == CHOOSE x \in S : \A y \in S : y <= x
Min(S) == CHOOSE x \in S : \A y \in S : x <= y

(* s.rsplit(":", 2) *)
rsplit2(s) ==
    LET cs == ColonAt(s)
    IN  IF cs = {} THEN <<s>>
        ELSE LET q2 == Max(cs)
                 r2 == SubSeq(s, q2 + 1, Len(s))
                 cs1 == cs \ {q2}
             IN  IF cs1 = {} THEN <<SubSeq(s, 1, q2 - 1), r2>>
                 ELSE LET q1 == Max(cs1)
                      IN  <<SubSeq(s, 1, q1 - 1), SubSeq(s, q1 + 1, q2 - 1), r2>>

(* s.split(":", 2) *)
split2(s) ==
    LET cs == ColonAt(s)
    IN  IF cs = {} THEN <<s>>
        ELSE LET q1 == Min(cs)
                 l1 == SubSeq(s, 1, q1 - 1)
                 cs2 == cs \ {q1}
             IN  IF cs2 = {} THEN <<l1, SubSeq(s, q1 + 1, Len(s))>>
                 ELSE LET q2 == Min(cs2)
                      IN  <<l1, SubSeq(s, q1 + 1, q2 - 1), SubSeq(s, q2 + 1, Len(s))>>

-----------------------------------------------------------------------------
(* hex(n)[2:] and int(s, 16) *)

HexDigit(d) == IF d < 10 THEN 48 + d ELSE 87 + d

RECURSIVE HexDigits(_)
HexDigits(n) ==
    IF n < 16 THEN <<HexDigit(n)>>
    ELSE Append(HexDigits(n \div 16), HexDigit(n % 16))

(* hex(n) of a non-negative machine int: "0x" and the lowercase digits *)
hex(n) == Str(<<48, 120>> \o HexDigits(n))

HexVal(c) ==
    IF c >= 48 /\ c <= 57 THEN c - 48
    ELSE IF c >= 97 /\ c <= 102 THEN c - 87
    ELSE IF c >= 65 /\ c <= 70 THEN c - 55
    ELSE -1

IsSpace(c) == c = 32 \/ (c >= 9 /\ c <= 13)

RECURSIVE LStrip(_)
LStrip(cs) == IF cs # <<>> /\ IsSpace(Head(cs)) THEN LStrip(Tail(cs)) ELSE cs

RECURSIVE RStrip(_)
RStrip(cs) ==
    IF cs # <<>> /\ IsSpace(cs[Len(cs)]) THEN RStrip(SubSeq(cs, 1, Len(cs) - 1)) ELSE cs

RECURSIVE HexValue(_)
HexValue(cs) ==
    IF cs = <<>> THEN 0 ELSE HexValue(SubSeq(cs, 1, Len(cs) - 1)) * 16 + HexVal(cs[Len(cs)])

(* int(s, 16): surrounding whitespace, an optional sign, an optional 0x or
   0X prefix, then at least one hexadecimal digit; anything else is a
   ValueError. *)
int16(s) ==
    IF ~AllLit(s) THEN Raise("ValueError")
    ELSE LET t == RStrip(LStrip(Codes(s)))
             neg == t # <<>> /\ t[1] = 45
             u == IF t # <<>> /\ (t[1] = 45 \/ t[1] = 43) THEN Tail(t) ELSE t
             v == IF Len(u) >= 2 /\ u[1] = 48 /\ (u[2] = 120 \/ u[2] = 88)
                  THEN SubSeq(u, 3, Len(u)) ELSE u
         IN  IF v = <<>> \/ \E i \in 1..Len(v) : HexVal(v[i]) < 0
             THEN Raise("ValueError")
             ELSE <<"int", IF neg THEN 0 - HexValue(v) ELSE HexValue(v)>>

-----------------------------------------------------------------------------
(* base64.urlsafe_b64encode and base64.urlsafe_b64decode *)

B64Char(v) ==
    IF v < 26 THEN 65 + v
    ELSE IF v < 52 THEN 97 + (v - 26)
    ELSE IF v < 62 THEN 48 + (v - 52)
    ELSE IF v = 62 THEN 45
    ELSE 95

RECURSIVE B64Enc(_)
B64Enc(bs) ==
    IF bs = <<>> THEN <<>>
    ELSE IF Len(bs) = 1 THEN
        <<B64Char(bs[1] \div 4), B64Char((bs[1] % 4) * 16), 61, 61>>
    ELSE IF Len(bs) = 2 THEN
        <<B64Char(bs[1] \div 4), B64Char((bs[1] % 4) * 16 + bs[2] \div 16),
          B64Char((bs[2] % 16) * 4), 61>>
    ELSE
        <<B64Char(bs[1] \div 4), B64Char((bs[1] % 4) * 16 + bs[2] \div 16),
          B64Char((bs[2] % 16) * 4 + bs[3] \div 64), B64Char(bs[3] % 64)>>
        \o B64Enc(SubSeq(bs, 4, Len(bs)))

(* The text of literal bytes is computed; the text of a string holding
   digest bytes is the blob of that string: ceil(8n/6) characters of the
   alphabet followed by the '=' padding. *)
b64encode(s) ==
    IF AllLit(s) THEN Str(B64Enc(Codes(s)))
    ELSE LET n == CLen(s)
         IN  << << <<"b64", s, <<>> >>, 1, (8 * n + 5) \div 6 >> >>
             \o [i \in 1..((3 - (n % 3)) % 3) |-> <<61>>]

(* value of a character after the url-safe translation ('-' and '+' are 62,
   '_' and '/' are 63); -1 for a character outside the alphabet *)
B64Val(c) ==
    IF c >= 65 /\ c <= 90 THEN c - 65
    ELSE IF c >= 97 /\ c <= 122 THEN c - 71
    ELSE IF c >= 48 /\ c <= 57 THEN c + 4
    ELSE IF c = 43 \/ c = 45 THEN 62
    ELSE IF c = 47 \/ c = 95 THEN 63
    ELSE -1

B64Valid(c) == c <= 127 /\ (c = 61 \/ B64Val(c) >= 0)

(* the next valid character after position i, -1 if there is none *)
NextValid(cs, i) ==
    LET js == {j \in (i + 1)..Len(cs) : B64Valid(cs[j])}
    IN  IF js = {} THEN -1 ELSE cs[Min(js)]

Pow2(k) == IF k = 0 THEN 1 ELSE IF k = 2 THEN 4 ELSE IF k = 4 THEN 16 ELSE 64

(* binascii.a2b_base64: characters outside the alphabet are skipped, a pad
   sequence ends the input, left-over bits are "Incorrect padding", which
   base64 re-raises as TypeError. *)
RECURSIVE a2b_base64(_, _, _, _, _, _)
a2b_base64(cs, i, quad, leftchar, leftbits, out) ==
    IF i > Len(cs) THEN
        IF leftbits # 0 THEN Raise("TypeError") ELSE <<"str", Str(out)>>
    ELSE LET c == cs[i] IN
        IF c > 127 \/ c = 13 \/ c = 10 \/ c = 32 THEN
            a2b_base64(cs, i + 1, quad, leftchar, leftbits, out)
        ELSE IF c = 61 THEN
            IF quad < 2 \/ (quad = 2 /\ NextValid(cs, i) # 61)
            THEN a2b_base64(cs, i + 1, quad, leftchar, leftbits, out)
            ELSE <<"str", Str(out)>>
        ELSE IF B64Val(c) < 0 THEN
            a2b_base64(cs, i + 1, quad, leftchar, leftbits, out)
        ELSE LET lc == leftchar * 64 + B64Val(c)
                 lb == leftbits + 6
             IN  IF lb >= 8
                 THEN a2b_base64(cs, i + 1, (quad + 1) % 4, lc % Pow2(lb - 8), lb - 8,
                                 Append(out, (lc \div Pow2(lb - 8)) % 256))
                 ELSE a2b_base64(cs, i + 1, (quad + 1) % 4, lc, lb, out)

b64decode(s) ==
    IF ~AllLit(s) THEN Raise("TypeError")
    ELSE a2b_base64(Codes(s), 1, 0, 0, 0, <<>>)

-----------------------------------------------------------------------------
(* str.decode("utf8") and unicode.encode("ascii") *)

(* Strict UTF-8 over one- and two-byte sequences.  Lead bytes 0xE0..0xF4
   (three- and four-byte sequences) are outside the modelled inputs. *)
RECURSIVE Utf8Ok(_)
Utf8Ok(bs) ==
    IF bs = <<>> THEN TRUE
    ELSE IF bs[1] < 128 THEN Utf8Ok(Tail(bs))
    ELSE IF bs[1] >= 194 /\ bs[1] <= 223 /\ Len(bs) >= 2 /\ bs[2] >= 128 /\ bs[2] <= 191
         THEN Utf8Ok(SubSeq(bs, 3, Len(bs)))
    ELSE FALSE

RECURSIVE Utf8Points(_)
Utf8Points(bs) ==
    IF bs = <<>> THEN <<>>
    ELSE IF bs[1] < 128 THEN <<bs[1]>> \o Utf8Points(Tail(bs))
    ELSE <<(bs[1] - 192) * 64 + (bs[2] - 128)>> \o Utf8Points(SubSeq(bs, 3, Len(bs)))

decode_utf8(s) ==
    IF Utf8Ok(Codes(s)) THEN PyUnicode(Str(Utf8Points(Codes(s))))
    ELSE Raise("UnicodeDecodeError")

encode_ascii(u) ==
    IF \A i \in 1..Len(u) : u[i][1] < 128 THEN PyStr(u)
    ELSE Raise("UnicodeEncodeError")

-----------------------------------------------------------------------------
(* hmac.new(key, msg, digestmod).digest() *)

digest_size(digestmod) == IF digestmod = "sha1" THEN 20 ELSE 16

hmac_new(key, msg, digestmod) ==
    << << <<digestmod, key, msg>>, 1, digest_size(digestmod) >> >>

(* hmac.new(key, msg): digestmod defaults to hashlib.md5 *)
hmac_default(key, msg) == hmac_new(key, msg, "md5")

(* faulty variant: the input keying material is left out of the extraction *)
HKDF_extract_salt_only(salt, IKM) == hmac_new(salt, <<>>, "sha1")

HKDF_extract(salt, IKM) == hmac_new(salt, IKM, "sha1")

(* faulty variant: the block count is rounded down *)
HKDF_N_floor(L) == L \div digest_size("sha1")

(* N = int(math.ceil(L * 1.0 / digest_size)) *)
HKDF_N(L) == (L + digest_size("sha1") - 1) \div digest_size("sha1")

(* assert N <= 255 *)
MaxBlocks == 255

(* faulty variant: the previous block is left out of the data of the next *)
HKDF_step_unchained(PRK, info, i, T, output) ==
    LET data == info \o << <<i>> >>
        T1 == hmac_new(PRK, data, "sha1")
    IN  <<T1, output \o T1>>

(* one pass of the loop body, lines 147-149, on T and output *)
HKDF_step(PRK, info, i, T, output) ==
    LET data == T \o info \o << <<i>> >>
        T1 == hmac_new(PRK, data, "sha1")
    IN  <<T1, output \o T1>>

(* the passes i = lo..hi of the loop, lines 146-149, from <<T, output>> = st.
   The range is halved, and the first half is evaluated (its length looked
   at) before the second half starts, so that the evaluation nests no
   deeper than log2(N). *)
RECURSIVE HKDF_loop(_, _, _, _, _)
HKDF_loop(PRK, info, lo, hi, st) ==
    IF lo > hi THEN st
    ELSE IF lo = hi THEN HKDF_step(PRK, info, lo, st[1], st[2])
    ELSE LET half == HKDF_loop(PRK, info, lo, (lo + hi) \div 2, st)
         IN  IF Len(half) = 2
             THEN HKDF_loop(PRK, info, (lo + hi) \div 2 + 1, hi, half)
             ELSE half

HKDF_expand(PRK, info, L) ==
    IF HKDF_N(L) > MaxBlocks THEN Raise("AssertionError")
    ELSE PyStr(Take(HKDF_loop(PRK, info, 1, HKDF_N(L), <<<<>>, <<>>>>)[2], L))

-----------------------------------------------------------------------------
(* Bounds of the model *)

(* clock readings per second: time.time() is a float, int() truncates it *)
TicksPerSec == 2
(* the first clock reading, in ticks *)
StartTick == 31
(* fine-grained clock readings after the start and around the expiry *)
Drift == 2
(* the explicit timeout, in seconds, the second manager is constructed with *)
ShortTimeout == 1

-----------------------------------------------------------------------------
(* SignedSessionManager *)

DefaultTimeout == 5 * 60

(* "ISessionManager" and "SIGNING" *)
SaltLabel == Str(<<73, 83, 101, 115, 115, 105, 111, 110, 77, 97, 110, 97, 103, 101, 114>>)
InfoLabel == Str(<<83, 73, 71, 78, 73, 78, 71>>)

(* __init__(secret, timeout); urandom16 is what os.urandom(16) returns *)
SignedSessionManager(secretArg, timeoutArg, urandom16) ==
    LET secret == IF secretArg = NoArg THEN urandom16 ELSE secretArg[1]
        timeout == IF timeoutArg = NoArg THEN DefaultTimeout ELSE timeoutArg[1]
        master_key == HKDF_extract(SaltLabel, secret)
    IN  [secret |-> secret, timeout |-> timeout, master_key |-> master_key,
         sig_key |-> HKDF_expand(master_key, InfoLabel, 16)[2]]

(* int(time.time()) at clock reading t (in ticks) *)
int_time(t) == t \div TicksPerSec

(* appid.encode("ascii") when appid is unicode *)
to_bytes(x) == IF x[1] = "unicode" THEN encode_ascii(x[2]) ELSE x

(* faulty variant: the "0x" of hex() is left in front of the timestamp *)
new_session_prefixed(self, appid, userid, t, urandom4) ==
    LET timestamp == hex(int_time(t))
        a == to_bytes(appid)
        u == to_bytes(userid)
    IN  IF IsRaise(a) THEN a
        ELSE IF IsRaise(u) THEN u
        ELSE LET data == b64encode(urandom4 \o Str(<<58>>) \o a[2] \o Str(<<58>>) \o u[2])
                 signed == timestamp \o Str(<<58>>) \o data
                 sig == b64encode(hmac_default(self.sig_key, signed))
             IN  PyStr(signed \o Str(<<58>>) \o sig)

(* new_session(appid, userid) at clock reading t; urandom4 is what
   os.urandom(4) returns.  The result is the token or the exception.
   hex() of a machine int carries no trailing "L", so lines 93-94 leave the
   digits as they are. *)
new_session(self, appid, userid, t, urandom4) ==
    LET timestamp == SubSeq(hex(int_time(t)), 3, Len(hex(int_time(t))))
        a == to_bytes(appid)
        u == to_bytes(userid)
    IN  IF IsRaise(a) THEN a
        ELSE IF IsRaise(u) THEN u
        ELSE LET data == b64encode(urandom4 \o Str(<<58>>) \o a[2] \o Str(<<58>>) \o u[2])
                 signed == timestamp \o Str(<<58>>) \o data
                 sig == b64encode(hmac_default(self.sig_key, signed))
             IN  PyStr(signed \o Str(<<58>>) \o sig)

(* pysauropod.utils.strings_differ: a comparison whose running time does not
   depend on where the strings differ *)
strings_differ(a, b) == a # b

(* faulty variant: the comparison is inverted, a token is rejected until it expires *)
expired_inverted(expiry_time, t) == expiry_time * TicksPerSec > t

(* faulty variant: a token is still accepted at the very instant it expires *)
expired_strict(expiry_time, t) == expiry_time * TicksPerSec < t

(* expiry_time <= time.time() at clock reading t *)
expired(expiry_time, t) == expiry_time * TicksPerSec <= t

(* lines 129-131: decode the payload of a token whose signature matched *)
session_payload(data) ==
    LET raw == b64decode(data)
    IN  IF IsRaise(raw) THEN raw
        ELSE LET parts == split2(raw[2])
             IN  IF Len(parts) # 3 THEN Raise("ValueError")
                 ELSE LET userid == decode_utf8(parts[3])
                      IN  IF IsRaise(userid) THEN userid
                          ELSE PyTuple(PyStr(parts[2]), userid)

(* faulty variant: the signature is computed over the timestamp as parsed and printed
   again, not over the text that was received *)
expected_sig_reparsed(self, timestamp, data) ==
    LET h == hex(int16(timestamp)[2])
    IN  b64encode(hmac_default(self.sig_key,
                               SubSeq(h, 3, Len(h)) \o Str(<<58>>) \o data))

(* the signature get_session_data expects for timestamp and data *)
expected_sig(self, timestamp, data) ==
    b64encode(hmac_default(self.sig_key, timestamp \o Str(<<58>>) \o data))

(* faulty variant: the two ValueErrors are not caught *)
get_session_data_uncaught(self, sessionid, t) ==
    LET parts == rsplit2(sessionid)
    IN  IF Len(parts) # 3 THEN Raise("ValueError")
        ELSE LET ts == int16(parts[1])
             IN  IF IsRaise(ts) THEN ts
                 ELSE IF expired(ts[2] + self.timeout, t) THEN PyNone
                 ELSE IF strings_differ(parts[3], expected_sig(self, parts[1], parts[2]))
                      THEN PyNone
                 ELSE session_payload(parts[2])

(* faulty variant: the signature is not compared *)
get_session_data_unsigned(self, sessionid, t) ==
    LET parts == rsplit2(sessionid)
    IN  IF Len(parts) # 3 THEN PyNone
        ELSE LET ts == int16(parts[1])
             IN  IF IsRaise(ts) THEN PyNone
                 ELSE IF expired(ts[2] + self.timeout, t) THEN PyNone
                 ELSE session_payload(parts[2])

(* get_session_data(sessionid) at clock reading t: None, the pair, or the
   exception that leaves the call *)
get_session_data(self, sessionid, t) ==
    LET parts == rsplit2(sessionid)
    IN  IF Len(parts) # 3 THEN PyNone
        ELSE LET timestamp == parts[1]
                 data == parts[2]
                 sig == parts[3]
                 ts == int16(timestamp)
             IN  IF IsRaise(ts) THEN PyNone
                 ELSE IF expired(ts[2] + self.timeout, t) THEN PyNone
                 ELSE IF strings_differ(sig, expected_sig(self, timestamp, data)) THEN PyNone
                 ELSE session_payload(data)

(* faulty variant: an attribute records that a token has been issued *)
new_session_self_registry(self) ==
    [k \in DOMAIN self \cup {"issued"} |-> IF k = "issued" THEN TRUE ELSE self[k]]

(* the attributes of self when new_session returns: lines 80-103 read
   self._sig_key and assign to no attribute *)
new_session_self(self) == self

(* faulty variant: the timeout is cleared once a token has been looked up *)
get_session_data_self_clearing(self) == [self EXCEPT !.timeout = 0]

(* the attributes of self when get_session_data returns: lines 105-131 read
   self.timeout and self._sig_key and assign to no attribute *)
get_session_data_self(self) == self

-----------------------------------------------------------------------------
(* The inputs the environment draws *)

Managers == {"m1", "m2"}

(* secret = 16 bytes of 0x4B; and what os.urandom(16) may return *)
Secret4B == [i \in 1..16 |-> <<75>>]
Urandom16 == [i \in 1..16 |-> <<(7 * i) % 256>>]

(* what os.urandom(4) may return: bytes without and with 0x3A *)
NoncePlain == Str(<<0, 255, 16, 7>>)
NonceColon == Str(<<0, 58, 16, 7>>)
Nonces == {NoncePlain, NonceColon}

(* "a", "a:b" *)
AppPlain == PyStr(Str(<<97>>))
AppColon == PyStr(Str(<<97, 58, 98>>))
Appids == {AppPlain, AppColon}

(* "u", "b:u", u"u", the UTF-8 bytes of U+00E9 *)
UserPlain == PyStr(Str(<<117>>))
UserColon == PyStr(Str(<<98, 58, 117>>))
Userids == {UserPlain, UserColon, PyUnicode(Str(<<117>>)), PyStr(Str(<<195, 169>>))}

(* the threads that call into a manager at the same time *)
Callers == {"c1", "c2"}

(* a caller that is in no call *)
Idle == [pc |-> "idle"]

(* the clock readings at which the environment acts, in ticks *)
Instants ==
    {StartTick + d : d \in 0..Drift}
    \cup {StartTick + DefaultTimeout * TicksPerSec + d : d \in (0 - 1)..(Drift + 1)}

-----------------------------------------------------------------------------
(* State.
   now       the clock, in ticks
   mgr       the SignedSessionManager instances and their attributes
   cur       the token most recently issued by new_session, with its inputs
   last      the call whose result the caller holds, <<>> between calls
   rejected  a call of get_session_data that returned None, once one is watched
   seen      the first watched call of get_session_data, with its result
   calls     for every concurrent caller, the call it is in: the line it has
             reached and the values it has read so far
   verifyLog the verify(assertion, audience) calls the external verifier saw
   credLast  the check_credentials call whose result the caller holds
   expand    the HKDF_expand call whose result the caller holds
   issued    the log of the tokens new_session has returned, with their
             inputs, in the specifications that start with an empty log;
             <<>> where no log is kept *)

TypeOK ==
    /\ now \in Instants
    /\ DOMAIN mgr = Managers
    /\ Len(cur) <= 1
    /\ Len(last) <= 1
    /\ Len(rejected) <= 1
    /\ Len(seen) <= 1
    /\ DOMAIN calls = Callers
    /\ Len(credLast) <= 1
    /\ Len(expand) <= 1
    /\ Len(issued) <= 1

InitManagers ==
    \E second \in {Arg(Secret4B), NoArg} :
        mgr = [m \in Managers |->
                 IF m = "m1" THEN SignedSessionManager(Arg(Secret4B), NoArg, Urandom16)
                 ELSE SignedSessionManager(second, Arg(ShortTimeout), Urandom16)]

Init ==
    /\ now = StartTick
    /\ InitManagers
    /\ cur = <<>>
    /\ last = <<>>
    /\ rejected = <<>>
    /\ seen = <<>>
    /\ calls = [c \in Callers |-> Idle]
    /\ verifyLog = <<>>
    /\ credLast = <<>>
    /\ expand = <<>>
    /\ issued = <<>>

(* time passes between calls *)
Tick ==
    /\ last = <<>>
    /\ \E t \in Instants : t > now /\ now' = t
    /\ UNCHANGED <<mgr, cur, last, rejected, seen, calls, verifyLog, credLast, expand, issued>>

(* the caller takes the result of the call *)
Return ==
    /\ last # <<>>
    /\ last' = <<>>
    /\ UNCHANGED <<now, mgr, cur, rejected, seen, calls, verifyLog, credLast, expand, issued>>

NewSession(m, appid, userid, urandom4) ==
    /\ last = <<>>
    /\ LET res == new_session(mgr[m], appid, userid, now, urandom4)
       IN  /\ last' = <<[op |-> "new_session", m |-> m, sid |-> <<>>,
                         how |-> <<>>, res |-> res]>>
           /\ cur' = IF IsRaise(res) THEN cur
                     ELSE <<[m |-> m, appid |-> appid, userid |-> userid,
                             nonce |-> urandom4, at |-> now, token |-> res[2]]>>
           /\ issued' = IF IsRaise(res) \/ issued = <<>> THEN issued
                        ELSE <<issued[1] \cup
                                {[m |-> m, appid |-> appid, userid |-> userid,
                                  nonce |-> urandom4, at |-> now, token |-> res[2]]}>>
    /\ mgr' = [mgr EXCEPT ![m] = new_session_self(mgr[m])]
    /\ UNCHANGED <<now, rejected, seen, calls, verifyLog, credLast, expand>>

(* get_session_data(sessionid) on manager m.  `how` records where the
   environment took sessionid from; with `watch` the first call is kept in
   `seen` and the first None in `rejected`, with the clock reading of the
   call. *)
GetSessionData(m, sessionid, how, watch) ==
    /\ last = <<>>
    /\ LET res == get_session_data(mgr[m], sessionid, now)
       IN  /\ last' = <<[op |-> "get_session_data", m |-> m, sid |-> sessionid,
                         how |-> how, res |-> res]>>
           /\ rejected' = IF watch /\ res = PyNone /\ rejected = <<>>
                          THEN <<[m |-> m, sid |-> sessionid, at |-> now]>>
                          ELSE rejected
           /\ seen' = IF watch /\ seen = <<>>
                      THEN <<[m |-> m, sid |-> sessionid, at |-> now, res |-> res]>>
                      ELSE seen
    /\ mgr' = [mgr EXCEPT ![m] = get_session_data_self(mgr[m])]
    /\ UNCHANGED <<now, cur, calls, verifyLog, credLast, expand, issued>>

(* new_session with any of the inputs *)
Issue ==
    /\ last = <<>>
    /\ \E m \in Managers, appid \in Appids, userid \in Userids, n \in Nonces :
          NewSession(m, appid, userid, n)

(* get_session_data on the token that was issued, by any manager *)
Validate ==
    /\ cur # <<>>
    /\ \E m \in Managers : GetSessionData(m, cur[1].token, <<"issued">>, FALSE)

Next == Tick \/ Issue \/ Validate \/ Return

Spec == Init /\ [][Next]_vars

-----------------------------------------------------------------------------
(* What the claims speak about *)

IsGet == last # <<>> /\ last[1].op = "get_session_data"

(* the last call is get_session_data on the issued token *)
GotIssued == IsGet /\ cur # <<>> /\ last[1].sid = cur[1].token

(* the text of a Python string given to new_session: a unicode string is its
   own text, a byte string is the text its UTF-8 bytes encode *)
TextOf(x) == IF x[1] = "unicode" THEN x ELSE decode_utf8(x[2])

(* the pair the call returned is the pair that was issued *)
ReturnsIssued ==
    /\ IsTuple(last[1].res)
    /\ TextOf(last[1].res[2]) = TextOf(cur[1].appid)
    /\ TextOf(last[1].res[3]) = TextOf(cur[1].userid)

HasColon(x) == ColonAt(x[2]) # {}

(* C1: get_session_data(new_session(appid, userid)) on the same manager
   returns (appid, userid) whenever it is called before timeout seconds have
   elapsed since the issuance, for every nonce new_session can draw. *)
C1_RoundTrip ==
    (GotIssued /\ last[1].m = cur[1].m
        /\ now - cur[1].at < mgr[cur[1].m].timeout * TicksPerSec)
    => ReturnsIssued

(* C3: get_session_data returns None for every token whose embedded timestamp
   satisfies timestamp + timeout <= now, equality included and also when the
   signature is valid; a token issued with timeout 300 is rejected once the
   clock has advanced 301 seconds. *)
C3_Expiry ==
    GotIssued =>
        /\ (int_time(cur[1].at) + mgr[last[1].m].timeout) * TicksPerSec <= now
              => last[1].res = PyNone
        /\ (mgr[last[1].m].timeout = 300 /\ now - cur[1].at >= 301 * TicksPerSec)
              => last[1].res = PyNone

(* C3 witness: the issuing manager rejects its own token at the exact instant
   timestamp + timeout = now *)
C3_Witness ==
    /\ GotIssued
    /\ last[1].m = cur[1].m
    /\ (int_time(cur[1].at) + mgr[last[1].m].timeout) * TicksPerSec = now
    /\ last[1].res = PyNone

(* C8: for an appid or userid that contains ':' the issued token validates to
   the original appid and userid (here with a nonce that holds no ':' and
   before the token expires). *)
C8_SeparatorSafety ==
    (GotIssued /\ last[1].m = cur[1].m
        /\ (HasColon(cur[1].appid) \/ HasColon(cur[1].userid))
        /\ cur[1].nonce = NoncePlain
        /\ ~expired(int_time(cur[1].at) + mgr[cur[1].m].timeout, now))
    => ReturnsIssued

(* C10: a token issued on one manager is None on every manager constructed
   with a different secret, at every clock reading. *)
C10_KeyIsolation ==
    (GotIssued /\ mgr[last[1].m].secret # mgr[cur[1].m].secret)
    => last[1].res = PyNone

(* C10 witness: a manager with another secret rejects a token that has not
   expired for it *)
C10_Witness ==
    /\ GotIssued
    /\ mgr[last[1].m].secret # mgr[cur[1].m].secret
    /\ ~expired(int_time(cur[1].at) + mgr[last[1].m].timeout, now)
    /\ last[1].res = PyNone

-----------------------------------------------------------------------------
(* Tampered tokens *)

(* ':', 'F', ' ', 'A' *)
TamperChars == {58, 70, 32, 65}

IssuePlain == \E m \in Managers : NewSession(m, AppPlain, UserPlain, NoncePlain)

(* get_session_data on the issued token with one byte of a segment changed *)
Tamper ==
    /\ last = <<>>
    /\ cur # <<>>
    /\ \E m \in Managers, p \in 1..CLen(cur[1].token), c \in TamperChars :
          /\ ByteAt(cur[1].token, p) \notin {58, c}
          /\ GetSessionData(m, ReplaceAt(cur[1].token, p, c), <<"tampered", p, c>>, FALSE)

NextTamper == Tick \/ IssuePlain \/ Tamper \/ Return

SpecTamper == Init /\ [][NextTamper]_vars

-----------------------------------------------------------------------------
(* Repeated validation of one token *)

Revalidate ==
    \E m \in Managers, w \in BOOLEAN :
        \/ cur # <<>> /\ GetSessionData(m, cur[1].token, <<"issued">>, w)
        \/ rejected # <<>> /\ GetSessionData(m, rejected[1].sid, <<"rejected">>, w)

NextNoReturn == Tick \/ IssuePlain \/ Revalidate \/ Return

SpecNoReturn == Init /\ [][NextNoReturn]_vars

-----------------------------------------------------------------------------
(* Arbitrary input strings *)

(* ':', 'f', 'g', '-' *)
Alphabet == {58, 102, 103, 45}
MaxLen == 4

Malformed ==
    /\ last = <<>>
    /\ \E m \in Managers, n \in 0..MaxLen :
          \E cs \in [1..n -> Alphabet] : GetSessionData(m, Str(cs), <<"input">>, FALSE)

(* what a holder of a manager's signing key can assemble *)
forge(self, timestamp, data) ==
    timestamp \o Str(<<58>>) \o data \o Str(<<58>>)
    \o b64encode(hmac_default(self.sig_key, timestamp \o Str(<<58>>) \o data))

StampNow == SubSeq(hex(int_time(now)), 3, Len(hex(int_time(now))))
(* the current time, "g", and the current time after a blank *)
ForgedStamps == {StampNow, Str(<<103>>), Str(<<32>>) \o StampNow}

(* base64 of nonce:"a":"u", of "x", of nonce:"a":0xFF, of nonce:"a"; and "A" *)
ForgedPayloads ==
    {b64encode(NoncePlain \o Str(<<58, 97, 58, 117>>)),
     b64encode(Str(<<120>>)),
     b64encode(NoncePlain \o Str(<<58, 97, 58, 255>>)),
     b64encode(NoncePlain \o Str(<<58, 97>>)),
     Str(<<65>>)}

Forged ==
    /\ last = <<>>
    /\ \E m \in Managers, k \in Managers, ts \in ForgedStamps, data \in ForgedPayloads :
          GetSessionData(m, forge(mgr[k], ts, data), <<"forged">>, FALSE)

(* new_session with a userid byte string that is not UTF-8 *)
IssueBytes == \E m \in Managers : NewSession(m, AppPlain, PyStr(Str(<<255>>)), NoncePlain)

NextInput == Tick \/ Malformed \/ Forged \/ IssueBytes \/ Validate \/ Return

SpecInput == Init /\ [][NextInput]_vars

-----------------------------------------------------------------------------

(* the last call is get_session_data on the issued token with the byte at
   one position of a segment replaced by another byte *)
GotTampered ==
    /\ IsGet
    /\ cur # <<>>
    /\ Len(last[1].how) = 3
    /\ ByteAt(cur[1].token, last[1].how[2]) \notin {58, last[1].how[3]}
    /\ last[1].sid = ReplaceAt(cur[1].token, last[1].how[2], last[1].how[3])

(* C2: for a token produced by new_session, changing any single byte of its
   timestamp, payload or signature segment makes get_session_data return
   None at every clock reading. *)
C2_TamperDetection == GotTampered => last[1].res = PyNone

(* C2 witness: a manager that accepts the token as issued rejects it with a
   timestamp byte changed to one that parses to the same time *)
C2_Witness ==
    /\ GotTampered
    /\ IsTuple(get_session_data(mgr[last[1].m], cur[1].token, now))
    /\ last[1].how[2] < Min(ColonAt(cur[1].token))
    /\ int16(rsplit2(last[1].sid)[1]) = int16(rsplit2(cur[1].token)[1])
    /\ last[1].res = PyNone

(* C9: under a non-decreasing clock, once get_session_data has returned None
   for a token on a manager, every later get_session_data with that token on
   that manager returns None. *)
C9_NoReturnToValid ==
    [][(/\ rejected # <<>>
        /\ last' # <<>>
        /\ last'[1].op = "get_session_data"
        /\ last'[1].m = rejected[1].m
        /\ last'[1].sid = rejected[1].sid)
       => last'[1].res = PyNone]_vars

(* C9 witness: a token that was rejected is validated again at a later clock
   reading by a manager that holds the key it was signed with *)
C9_Witness ==
    /\ IsGet
    /\ rejected # <<>>
    /\ last[1].m = rejected[1].m
    /\ last[1].sid = rejected[1].sid
    /\ now > rejected[1].at
    /\ cur # <<>> /\ last[1].sid = cur[1].token
    /\ mgr[last[1].m].secret = mgr[cur[1].m].secret
    /\ last[1].res = PyNone

ColonCount(s) == Cardinality(ColonAt(s))

(* the text before the first ':' *)
StampOf(s) == SubSeq(s, 1, Min(ColonAt(s)) - 1)

(* C5: for every input string and every clock reading get_session_data ends
   with a pair or with None; it never raises. *)
C5_TwoOutcomes == IsGet => (last[1].res = PyNone \/ IsTuple(last[1].res))

(* C7: every string that does not consist of exactly three ':'-separated
   segments, and every string whose timestamp segment int(., 16) does not
   read as a hexadecimal integer, makes get_session_data return None. *)
C7_MalformedInput ==
    (IsGet /\ (ColonCount(last[1].sid) # 2 \/ IsRaise(int16(StampOf(last[1].sid)))))
    => last[1].res = PyNone

(* C7 witness: three segments and a valid signature, but a timestamp that is
   no hexadecimal integer *)
C7_Witness ==
    /\ IsGet
    /\ last[1].how = <<"forged">>
    /\ ColonCount(last[1].sid) = 2
    /\ IsRaise(int16(StampOf(last[1].sid)))
    /\ last[1].sid = forge(mgr[last[1].m], StampOf(last[1].sid), rsplit2(last[1].sid)[2])
    /\ last[1].res = PyNone

-----------------------------------------------------------------------------
(* BrowserIDCredentials *)

(* credentials.get(key) *)
dict_get(d, key) == IF key \in DOMAIN d THEN d[key] ELSE PyNone

NoIdentity == PyTuple(PyNone, PyNone)

(* faulty variant: the verifier is called before the fields are looked at *)
check_credentials_eager(credentials, outcome) ==
    LET assertion == dict_get(credentials, "assertion")
        audience == dict_get(credentials, "audience")
        email == IF IsRaise(outcome)
                 THEN (IF outcome[2] \in {"ValueError", "TrustError"} THEN NoIdentity ELSE outcome)
                 ELSE IF outcome[2] = NoArg THEN Raise("KeyError")
                 ELSE PyTuple(audience, outcome[2][1])
    IN  [calls |-> << <<assertion, audience>> >>,
         res |-> IF assertion = PyNone \/ audience = PyNone THEN NoIdentity ELSE email]

(* faulty variant: verify is given the audience first and the assertion second *)
check_credentials_swapped(credentials, outcome) ==
    LET assertion == dict_get(credentials, "assertion")
        audience == dict_get(credentials, "audience")
    IN  IF assertion = PyNone \/ audience = PyNone
        THEN [calls |-> <<>>, res |-> NoIdentity]
        ELSE [calls |-> << <<audience, assertion>> >>,
              res |-> IF IsRaise(outcome)
                      THEN (IF outcome[2] \in {"ValueError", "TrustError"}
                            THEN NoIdentity ELSE outcome)
                      ELSE IF outcome[2] = NoArg THEN Raise("KeyError")
                      ELSE PyTuple(audience, outcome[2][1])]

(* check_credentials(credentials).  `outcome` is what the external
   verifier's verify(assertion, audience) does if it is called: claims with
   or without an email, or an exception.  The result is what the call
   returns or raises, with the verify calls it made. *)
check_credentials(credentials, outcome) ==
    LET assertion == dict_get(credentials, "assertion")
        audience == dict_get(credentials, "audience")
    IN  IF assertion = PyNone \/ audience = PyNone
        THEN [calls |-> <<>>, res |-> NoIdentity]
        ELSE [calls |-> << <<assertion, audience>> >>,
              res |-> IF IsRaise(outcome)
                      THEN (IF outcome[2] \in {"ValueError", "TrustError"}
                            THEN NoIdentity ELSE outcome)
                      ELSE IF outcome[2] = NoArg THEN Raise("KeyError")
                      ELSE PyTuple(audience, outcome[2][1])]

(* the credentials records: any of the two fields present or absent *)
Assertions == {PyStr("assertion-1"), PyStr("assertion-2")}
Audiences == {PyStr("https://app1"), PyStr("https://app2")}
CredentialRecords ==
    {<<>>}
    \cup {[k \in {"assertion"} |-> a] : a \in Assertions}
    \cup {[k \in {"audience"} |-> b] : b \in Audiences}
    \cup {[k \in {"assertion", "audience"} |-> IF k = "assertion" THEN a ELSE b] :
            a \in Assertions, b \in Audiences}

(* what verify may do: return claims with an email, claims without one,
   raise ValueError, a vep.TrustError, a connection error or a timeout *)
VerifyOutcomes ==
    {<<"dict", Arg(PyStr("user@example.com"))>>, <<"dict", NoArg>>,
     Raise("ValueError"), Raise("TrustError"), Raise("ConnectionError"), Raise("timeout")}

(* verify calls kept in the log *)
MaxLog == 2

CheckCredentials ==
    /\ credLast = <<>>
    /\ \E c \in CredentialRecords, o \in VerifyOutcomes :
          LET r == check_credentials(c, o)
          IN  /\ Len(verifyLog) + Len(r.calls) <= MaxLog
              /\ verifyLog' = verifyLog \o r.calls
              /\ credLast' = <<[credentials |-> c, outcome |-> o, res |-> r.res,
                                before |-> Len(verifyLog)]>>
    /\ UNCHANGED <<now, mgr, cur, last, rejected, seen, calls, expand, issued>>

ReturnCredentials ==
    /\ credLast # <<>>
    /\ credLast' = <<>>
    /\ UNCHANGED <<now, mgr, cur, last, rejected, seen, calls, verifyLog, expand, issued>>

NextCred == CheckCredentials \/ ReturnCredentials

SpecCred == Init /\ [][NextCred]_vars

FieldMissing(c) == dict_get(c, "assertion") = PyNone \/ dict_get(c, "audience") = PyNone

(* C4: whenever the verifier's verify(assertion, audience) call fails in any
   way, check_credentials returns (None, None) and no exception leaves it. *)
C4_FailureCollapsing ==
    (credLast # <<>> /\ ~FieldMissing(credLast[1].credentials)
        /\ IsRaise(credLast[1].outcome))
    => credLast[1].res = NoIdentity

(* C6: when the credentials record lacks assertion or lacks audience,
   check_credentials returns (None, None) and verify is not invoked during
   that call. *)
C6_MissingField ==
    (credLast # <<>> /\ FieldMissing(credLast[1].credentials))
    => /\ credLast[1].res = NoIdentity
       /\ Len(verifyLog) = credLast[1].before

(* C6 witness: a record with an assertion and no audience is turned down
   after the verifier has served an earlier call *)
C6_Witness ==
    /\ credLast # <<>>
    /\ DOMAIN credLast[1].credentials = {"assertion"}
    /\ credLast[1].res = NoIdentity
    /\ credLast[1].before > 0
    /\ Len(verifyLog) = credLast[1].before

-----------------------------------------------------------------------------
(* Statelessness *)

Attributes == {"secret", "timeout", "master_key", "sig_key"}

(* the last call is get_session_data, repeated with the token, on the manager
   and at the clock reading of the watched call *)
Repeated(l, t) ==
    /\ seen # <<>>
    /\ l # <<>>
    /\ l[1].op = "get_session_data"
    /\ l[1].m = seen[1].m
    /\ l[1].sid = seen[1].sid
    /\ t = seen[1].at

(* C11: no call of new_session or get_session_data changes the secret, the
   timeout, the master key or the signing key of a manager or adds an
   attribute to it, and get_session_data repeated with the same token at the
   same clock reading returns what it returned before. *)
C11_Statelessness ==
    [][/\ mgr' = mgr
       /\ \A m \in Managers : DOMAIN mgr'[m] = Attributes
       /\ Repeated(last', now') => last'[1].res = seen[1].res]_vars

(* C11 witness: after new_session and an accepting get_session_data, the
   same call at the same clock reading accepts the token again, and the
   manager holds what its constructor derived from the secret *)
C11_Witness ==
    /\ Repeated(last, now)
    /\ cur # <<>> /\ last[1].sid = cur[1].token
    /\ IsTuple(seen[1].res)
    /\ last[1].res = seen[1].res
    /\ mgr[last[1].m] = SignedSessionManager(Arg(mgr[last[1].m].secret),
                                              Arg(mgr[last[1].m].timeout), Urandom16)

-----------------------------------------------------------------------------
(* Concurrent callers.  A call is a sequence of steps, one for every line
   that reads the clock, the random source or an attribute of the manager;
   steps of different callers and the clock interleave freely. *)

(* a caller entering a call: the line it is at, its arguments, the manager
   as it is when the call starts, and the locals it has not yet assigned *)
Frame(op, pc, m, appid, userid, sid) ==
    [pc |-> pc, op |-> op, m |-> m, self0 |-> mgr[m], appid |-> appid,
     userid |-> userid, sid |-> sid, t |-> 0, nonce |-> <<>>, timeout |-> 0,
     res |-> <<>>]

(* "f" and "g:f:f": no three segments, and no hexadecimal timestamp *)
CallerSids ==
    {Str(<<102>>), Str(<<103, 58, 102, 58, 102>>)}
    \cup (IF cur = <<>> THEN {} ELSE {cur[1].token})

(* "u" and u"\xe9", which unicode.encode("ascii") refuses *)
CallerUserids == {UserPlain, PyUnicode(Str(<<233>>))}

(* the manager the callers share: the one constructed with the short
   timeout, so that a token expires while calls are under way *)
Shared == "m2"

(* the clock moves on while calls are under way *)
CallerTick ==
    /\ \E d \in 1..Drift : now < StartTick + d /\ now' = StartTick + d
    /\ UNCHANGED <<mgr, cur, last, rejected, seen, calls, verifyLog, credLast, expand, issued>>

(* the call of caller c ends with res *)
Finished(c, res) == [calls EXCEPT ![c].pc = "done", ![c].res = res]

CallNewSession(c) ==
    /\ calls[c].pc = "idle"
    /\ \E userid \in CallerUserids :
          calls' = [calls EXCEPT ![c] =
                      Frame("new_session", "line 90", Shared, AppPlain, userid, <<>>)]
    /\ UNCHANGED <<now, mgr, cur, last, rejected, seen, verifyLog, credLast, expand, issued>>

(* timestamp = hex(int(time.time())) *)
NewSessionLine90(c) ==
    /\ calls[c].pc = "line 90"
    /\ calls' = [calls EXCEPT ![c].pc = "line 95", ![c].t = now]
    /\ UNCHANGED <<now, mgr, cur, last, rejected, seen, verifyLog, credLast, expand, issued>>

(* lines 95-99: the two encode("ascii") and os.urandom(4) *)
NewSessionLine95(c) ==
    /\ calls[c].pc = "line 95"
    /\ LET a == to_bytes(calls[c].appid)
           u == to_bytes(calls[c].userid)
       IN  IF IsRaise(a) \/ IsRaise(u)
           THEN /\ calls' = Finished(c, IF IsRaise(a) THEN a ELSE u)
                /\ mgr' = [mgr EXCEPT ![calls[c].m] = new_session_self(mgr[calls[c].m])]
           ELSE /\ \E n \in Nonces :
                      calls' = [calls EXCEPT ![c].pc = "line 102", ![c].nonce = n]
                /\ UNCHANGED mgr
    /\ UNCHANGED <<now, cur, last, rejected, seen, verifyLog, credLast, expand, issued>>

(* lines 100-103: self._sig_key is read, the token is signed and returned *)
NewSessionLine102(c) ==
    /\ calls[c].pc = "line 102"
    /\ LET f == calls[c]
           res == new_session(mgr[f.m], f.appid, f.userid, f.t, f.nonce)
       IN  /\ calls' = Finished(c, res)
           /\ cur' = <<[m |-> f.m, appid |-> f.appid, userid |-> f.userid,
                        nonce |-> f.nonce, at |-> f.t, token |-> res[2]]>>
           /\ issued' = IF issued = <<>> THEN issued
                        ELSE <<issued[1] \cup
                                {[m |-> f.m, appid |-> f.appid, userid |-> f.userid,
                                  nonce |-> f.nonce, at |-> f.t, token |-> res[2]]}>>
           /\ mgr' = [mgr EXCEPT ![f.m] = new_session_self(mgr[f.m])]
    /\ UNCHANGED <<now, last, rejected, seen, verifyLog, credLast, expand>>

(* lines 112-115: sessionid.rsplit(":", 2) *)
CallGetSessionData(c) ==
    /\ calls[c].pc = "idle"
    /\ \E m \in {Shared}, sid \in CallerSids :
          IF Len(rsplit2(sid)) # 3
          THEN /\ calls' = [calls EXCEPT ![c] =
                      [Frame("get_session_data", "done", m, <<>>, <<>>, sid)
                          EXCEPT !.res = PyNone]]
               /\ mgr' = [mgr EXCEPT ![m] = get_session_data_self(mgr[m])]
          ELSE /\ calls' = [calls EXCEPT ![c] =
                      Frame("get_session_data", "line 118", m, <<>>, <<>>, sid)]
               /\ UNCHANGED mgr
    /\ UNCHANGED <<now, cur, last, rejected, seen, verifyLog, credLast, expand, issued>>

(* lines 117-120: int(timestamp, 16) + self.timeout *)
GetSessionDataLine118(c) ==
    /\ calls[c].pc = "line 118"
    /\ LET f == calls[c]
       IN  IF IsRaise(int16(rsplit2(f.sid)[1]))
           THEN /\ calls' = Finished(c, PyNone)
                /\ mgr' = [mgr EXCEPT ![f.m] = get_session_data_self(mgr[f.m])]
           ELSE /\ calls' = [calls EXCEPT ![c].pc = "line 121",
                                          ![c].timeout = mgr[f.m].timeout]
                /\ UNCHANGED mgr
    /\ UNCHANGED <<now, cur, last, rejected, seen, verifyLog, credLast, expand, issued>>

(* lines 121-122: expiry_time <= time.time() *)
GetSessionDataLine121(c) ==
    /\ calls[c].pc = "line 121"
    /\ LET f == calls[c]
       IN  IF expired(int16(rsplit2(f.sid)[1])[2] + f.timeout, now)
           THEN /\ calls' = [Finished(c, PyNone) EXCEPT ![c].t = now]
                /\ mgr' = [mgr EXCEPT ![f.m] = get_session_data_self(mgr[f.m])]
           ELSE /\ calls' = [calls EXCEPT ![c].pc = "line 125", ![c].t = now]
                /\ UNCHANGED mgr
    /\ UNCHANGED <<now, cur, last, rejected, seen, verifyLog, credLast, expand, issued>>

(* lines 124-131: self._sig_key is read, the signature is compared and the
   payload decoded; the timeout and the clock are the values read before *)
GetSessionDataLine125(c) ==
    /\ calls[c].pc = "line 125"
    /\ LET f == calls[c]
       IN  /\ calls' = Finished(c, get_session_data(
                                       [mgr[f.m] EXCEPT !.timeout = f.timeout], f.sid, f.t))
           /\ mgr' = [mgr EXCEPT ![f.m] = get_session_data_self(mgr[f.m])]
    /\ UNCHANGED <<now, cur, last, rejected, seen, verifyLog, credLast, expand, issued>>

(* the caller takes the result *)
CallReturn(c) ==
    /\ calls[c].pc = "done"
    /\ calls' = [calls EXCEPT ![c] = Idle]
    /\ UNCHANGED <<now, mgr, cur, last, rejected, seen, verifyLog, credLast, expand, issued>>

NextConcurrent ==
    \/ CallerTick
    \/ \E c \in Callers :
          \/ CallNewSession(c)
          \/ NewSessionLine90(c)
          \/ NewSessionLine95(c)
          \/ NewSessionLine102(c)
          \/ CallGetSessionData(c)
          \/ GetSessionDataLine118(c)
          \/ GetSessionDataLine121(c)
          \/ GetSessionDataLine125(c)
          \/ CallReturn(c)

SpecConcurrent == Init /\ [][NextConcurrent]_vars

(* what the finished call f returns when it runs alone on the manager it
   was started on, with the clock reading and the nonce f has drawn *)
Alone(f) ==
    IF f.op = "new_session"
    THEN new_session(f.self0, f.appid, f.userid, f.t, f.nonce)
    ELSE get_session_data(f.self0, f.sid, f.t)

(* C12: under every interleaving of the steps of concurrent new_session and
   get_session_data calls with each other and with the clock, every call
   returns what it returns when executed alone with the same arguments, the
   same clock reading and the same nonce. *)
C12_ConcurrencySafety ==
    \A c \in Callers : calls[c].pc = "done" => calls[c].res = Alone(calls[c])

(* C12 witness: a get_session_data that accepts a token finishes although
   another caller's new_session on the same manager started after it and
   finished before it *)
C12_Witness ==
    \E c, d \in Callers :
        /\ c # d
        /\ calls[c].pc = "done"
        /\ calls[c].op = "get_session_data"
        /\ IsTuple(calls[c].res)
        /\ calls[d].pc = "done"
        /\ calls[d].op = "new_session"
        /\ ~IsRaise(calls[d].res)
        /\ calls[d].m = calls[c].m
        /\ calls[d].t > calls[c].t
        /\ cur # <<>> /\ cur[1].token = calls[d].res[2]
        /\ calls[c].sid # cur[1].token

-----------------------------------------------------------------------------
(* HKDF_expand with any requested length *)

(* the bytes that the largest number of blocks holds *)
MaxLength == MaxBlocks * digest_size("sha1")

(* requested lengths: the short ones, and those around the largest *)
ShortLength == 45
Margin == 3
ExpandLengths ==
    0..ShortLength \cup (MaxLength - Margin)..(MaxLength + Margin)

(* HKDF_expand(PRK, info, L) with the master key of a manager.  Of the
   result the caller's record keeps the exception, if one was raised, and
   the length of the string otherwise. *)
Expand ==
    /\ last = <<>>
    /\ expand = <<>>
    /\ \E m \in Managers, info \in {InfoLabel, <<>>}, L \in ExpandLengths :
          LET res == HKDF_expand(mgr[m].master_key, info, L)
          IN  expand' = <<[PRK |-> mgr[m].master_key, info |-> info, L |-> L,
                           exc |-> IF IsRaise(res) THEN res ELSE <<>>,
                           len |-> IF IsRaise(res) THEN 0 - 1 ELSE CLen(res[2])]>>
    /\ UNCHANGED <<now, mgr, cur, last, rejected, seen, calls, verifyLog, credLast, issued>>

ExpandReturn ==
    /\ expand # <<>>
    /\ expand' = <<>>
    /\ UNCHANGED <<now, mgr, cur, last, rejected, seen, calls, verifyLog, credLast, issued>>

(* the session calls go on between the expansions *)
NextExpand ==
    \/ Expand
    \/ ExpandReturn
    \/ expand = <<>> /\ (IssuePlain \/ Validate \/ Return)

SpecExpand == Init /\ [][NextExpand]_vars

(* C13: HKDF_expand fails for every requested length above 255 * 20 = 5100
   bytes and for no length from 0 to 5100, and no call of new_session or
   get_session_data ends with that failure. *)
C13_HKDFBound ==
    /\ expand # <<>> =>
          (expand[1].exc # <<>> <=> expand[1].L > 255 * 20)
    /\ last # <<>> => last[1].res # Raise("AssertionError")

(* C13 witness: 5100 bytes are delivered, by a manager that has issued and
   accepted a token *)
C13_Witness ==
    /\ expand # <<>>
    /\ expand[1].L = 255 * 20
    /\ expand[1].exc = <<>>
    /\ expand[1].len = 255 * 20
    /\ cur # <<>>
    /\ IsTuple(get_session_data(mgr[cur[1].m], cur[1].token, now))

-----------------------------------------------------------------------------
(* Strings assembled from issued tokens, without the signing key *)

(* tokens kept in the log *)
MaxIssued == 2

InitLogged ==
    /\ now = StartTick
    /\ InitManagers
    /\ cur = <<>>
    /\ last = <<>>
    /\ rejected = <<>>
    /\ seen = <<>>
    /\ calls = [c \in Callers |-> Idle]
    /\ verifyLog = <<>>
    /\ credLast = <<>>
    /\ expand = <<>>
    /\ issued = <<{}>>

(* the clock moves to the next second *)
TickSecond ==
    /\ last = <<>>
    /\ int_time(now) = int_time(StartTick)
    /\ now' = (int_time(now) + 1) * TicksPerSec
    /\ UNCHANGED <<mgr, cur, last, rejected, seen, calls, verifyLog, credLast, expand, issued>>

IssueLogged ==
    /\ last = <<>>
    /\ Cardinality(issued[1]) < MaxIssued
    /\ \E m \in Managers, appid \in Appids : NewSession(m, appid, UserPlain, NoncePlain)

(* get_session_data on any token of the log *)
ValidateLogged ==
    /\ last = <<>>
    /\ \E m \in Managers, e \in issued[1] :
          GetSessionData(m, e.token, <<"issued">>, FALSE)

(* the timestamp of one token, the payload of a second and the signature of
   a third *)
splice(x, y, z) ==
    rsplit2(x)[1] \o Str(<<58>>) \o rsplit2(y)[2] \o Str(<<58>>) \o rsplit2(z)[3]

Splice ==
    /\ last = <<>>
    /\ \E m \in Managers, x, y, z \in issued[1] :
          GetSessionData(m, splice(x.token, y.token, z.token), <<"spliced">>, FALSE)

NextLogged == TickSecond \/ IssueLogged \/ ValidateLogged \/ Splice \/ Tamper \/ Return

SpecLogged == InitLogged /\ [][NextLogged]_vars

(* an identity pair has been returned *)
Accepted == IsGet /\ IsTuple(last[1].res)

(* C14: every identity pair get_session_data returns is an (appid, userid)
   pair that was passed to an earlier new_session call on a manager with the
   same secret, whatever the nonce. *)
C14_Authenticity ==
    Accepted =>
        \E e \in issued[1] :
            /\ mgr[e.m].secret = mgr[last[1].m].secret
            /\ TextOf(last[1].res[2]) = TextOf(e.appid)
            /\ TextOf(last[1].res[3]) = TextOf(e.userid)

(* C15: get_session_data returns an identity pair only for a string whose
   timestamp and payload segments are those of a token new_session produced
   earlier under the same signing key; no string put together from issued
   tokens and other bytes without the key is accepted otherwise. *)
C15_Unforgeability ==
    Accepted =>
        \E e \in issued[1] :
            /\ mgr[e.m].sig_key = mgr[last[1].m].sig_key
            /\ rsplit2(last[1].sid)[1] = rsplit2(e.token)[1]
            /\ rsplit2(last[1].sid)[2] = rsplit2(e.token)[2]

(* C15 witness: with two tokens of different timestamps logged, a string put
   together from the segments of one of them is accepted, and it was signed
   by the other manager holding the same key *)
C15_Witness ==
    /\ Accepted
    /\ last[1].how = <<"spliced">>
    /\ \E e, f \in issued[1] :
          /\ rsplit2(e.token)[1] # rsplit2(f.token)[1]
          /\ e.m # last[1].m
          /\ last[1].sid = e.token

-----------------------------------------------------------------------------

(* verify returned claims that hold an email *)
HasEmail(o) == ~IsRaise(o) /\ o[2] # NoArg

(* C16: when assertion and audience are both present and verify(assertion,
   audience) returns claims with an email, check_credentials has called
   verify exactly once, with those two arguments, and returns
   (audience, email). *)
C16_SuccessfulCheck ==
    (credLast # <<>> /\ ~FieldMissing(credLast[1].credentials)
        /\ HasEmail(credLast[1].outcome))
    => /\ credLast[1].res = PyTuple(credLast[1].credentials["audience"],
                                    credLast[1].outcome[2][1])
       /\ Len(verifyLog) = credLast[1].before + 1
       /\ verifyLog[Len(verifyLog)] = <<credLast[1].credentials["assertion"],
                                        credLast[1].credentials["audience"]>>

(* C16 witness: the second assertion is accepted for the second audience
   after the verifier has served an earlier call *)
C16_Witness ==
    /\ credLast # <<>>
    /\ credLast[1].before > 0
    /\ credLast[1].credentials =
          [k \in {"assertion", "audience"} |->
              IF k = "assertion" THEN PyStr("assertion-2") ELSE PyStr("https://app2")]
    /\ HasEmail(credLast[1].outcome)
    /\ credLast[1].res = PyTuple(PyStr("https://app2"), PyStr("user@example.com"))

-----------------------------------------------------------------------------

(* new_session has just returned the token in cur *)
JustIssued ==
    /\ last # <<>>
    /\ last[1].op = "new_session"
    /\ ~IsRaise(last[1].res)
    /\ cur # <<>>
    /\ cur[1].token = last[1].res[2]

(* '0'..'9' or 'a'..'f' *)
IsLowerHex(c) == (c >= 48 /\ c <= 57) \/ (c >= 97 /\ c <= 102)

(* the digits of a number in lowercase hexadecimal, without prefix, suffix
   or leading zeros *)
IsPlainHexOf(s, n) ==
    /\ s # <<>>
    /\ AllLit(s)
    /\ \A i \in 1..Len(s) : IsLowerHex(s[i][1])
    /\ (Len(s) > 1 => s[1][1] # 48)
    /\ HexValue(Codes(s)) = n

(* C17: every token new_session returns holds exactly two ':' and three
   non-empty segments; the first is the plain lowercase hexadecimal of the
   issuance time in whole seconds, and the right-split of get_session_data
   gives back that timestamp, the encoded payload and the signature. *)
C17_TokenShape ==
    JustIssued =>
        LET parts == rsplit2(cur[1].token)
            a == to_bytes(cur[1].appid)[2]
            u == to_bytes(cur[1].userid)[2]
        IN  /\ ColonCount(cur[1].token) = 2
            /\ Len(parts) = 3
            /\ \A i \in 1..3 : parts[i] # <<>>
            /\ IsPlainHexOf(parts[1], cur[1].at \div TicksPerSec)
            /\ parts[2] = b64encode(cur[1].nonce \o Str(<<58>>) \o a \o Str(<<58>>) \o u)
            /\ parts[3] = expected_sig(mgr[cur[1].m], parts[1], parts[2])

(* C17 witness: a token whose payload holds four ':' before it is encoded
   and whose timestamp has a letter among its digits *)
C17_Witness ==
    /\ JustIssued
    /\ cur[1].nonce = NonceColon
    /\ cur[1].appid = AppColon
    /\ cur[1].userid = UserColon
    /\ \E i \in 1..Len(rsplit2(cur[1].token)[1]) : rsplit2(cur[1].token)[1][i][1] >= 97
    /\ ColonCount(cur[1].token) = 2

-----------------------------------------------------------------------------

(* HMAC-SHA1 under the signing key of manager m over timestamp ':' payload,
   in urlsafe base64 *)
Sha1Signature(m, timestamp, data) ==
    b64encode(hmac_new(mgr[m].sig_key, timestamp \o Str(<<58>>) \o data, "sha1"))

(* C18: the signature segment new_session writes, and the signature
   get_session_data expects for the token it is given, are the base64url of
   HMAC-SHA1 under the derived signing key over timestamp ':' payload, the
   hash function of HKDF_extract and HKDF_expand. *)
C18_SignatureAlgorithm ==
    /\ JustIssued =>
          rsplit2(cur[1].token)[3] =
              Sha1Signature(cur[1].m, rsplit2(cur[1].token)[1], rsplit2(cur[1].token)[2])
    /\ GotIssued =>
          expected_sig(mgr[last[1].m], rsplit2(last[1].sid)[1], rsplit2(last[1].sid)[2]) =
              Sha1Signature(last[1].m, rsplit2(last[1].sid)[1], rsplit2(last[1].sid)[2])

(* the block T[i] of an expansion that delivered out: the SHA-1 digest under
   PRK of the whole previous block, info and the byte i *)
BlockAfter(PRK, info, out, i) ==
    <<"sha1", PRK,
      (IF i = 1 THEN <<>> ELSE << <<out[i - 1][1], 1, 20>> >>) \o info \o << <<i>> >> >>

(* what the HKDF_expand call in `expand` returned *)
Expanded == HKDF_expand(expand[1].PRK, expand[1].info, expand[1].L)

(* C19: for every requested length L from 0 to 5100 HKDF_expand delivers
   the first L bytes of N = ceil(L / 20) chained blocks: every block but the
   last in full and the last one up to L, the block T[i] being keyed on PRK
   over T[i-1], info and the byte i. *)
C19_HKDFOutput ==
    (expand # <<>> /\ expand[1].L <= 255 * 20) =>
        LET L == expand[1].L
            N == (L + 19) \div 20
            out == Expanded[2]
        IN  /\ expand[1].exc = <<>>
            /\ Len(out) = N
            /\ \A i \in 1..N :
                  out[i] = <<BlockAfter(expand[1].PRK, expand[1].info, out, i), 1,
                             IF i < N THEN 20 ELSE L - 20 * (N - 1)>>
            /\ expand[1].len = L

(* C19 witness: 5099 bytes, the 255th block cut to 19 bytes and keyed over
   the 254th block *)
C19_Witness ==
    /\ expand # <<>>
    /\ expand[1].L = 5099
    /\ expand[1].exc = <<>>
    /\ expand[1].len = 5099
    /\ Len(Expanded[2]) = 255
    /\ Expanded[2][255][3] = 19
    /\ Expanded[2][255][1][3][1] = <<Expanded[2][254][1], 1, 20>>

====
